---- MODULE Spec2Model ----
(***************************************************************************)
(* Model of the ESG dashboard front end (React context ESGContext.jsx and  *)
(* the pages that use it) and of the ESG aggregator that the back end runs *)
(* for POST /analyze.                                                       *)
(*                                                                         *)
(* Numbers: sub-scores are kept in tenths of a point (800 is 80.0),        *)
(* weights in hundredths (35 is 0.35), so an overall score is kept in      *)
(* thousandths of a point (74000 is 74.0).                                 *)
(***************************************************************************)
EXTENDS Integers, Sequences, FiniteSets, TLC

VARIABLES
    state,            \* the reducer state of ESGProvider
    pending,          \* analyzeCompany calls whose POST /analyze is in flight
    callCount,        \* analyzeCompany calls made so far
    postCount,        \* POST /analyze requests sent so far
    lastPost,         \* body of the most recent POST /analyze, << >> if none
    lastSettled,      \* the call that settled last: how it ended, and the toast
                      \* its handler then showed
    succeeded,        \* POST /analyze requests that got a response
    failed,           \* POST /analyze requests that failed
    serverClock,      \* analysis_timestamp the back end gives the next record
    page,             \* the route that is mounted
    portfolioMount,   \* which mount of the Portfolio page is the current one
    portfolioLoading, \* Portfolio's local loading flag (current mount)
    events,           \* socket events received so far
    received,         \* payloads of the analysis_complete events, oldest first
    lastCall,         \* arguments of the latest analyzeCompany call, or << >>
    lastRemoved,      \* argument of the latest removeFromPortfolio call
    pageLoading,      \* the loading flag of the mounted Dashboard or Market
                      \* page, FALSE when neither is mounted
    fetches,          \* the two fetches of that page's load
    trendingCompanies, \* that page's list of trending companies
    sectorData,       \* that page's list of sectors
    aggInput,         \* the aggregator call being made
    aggResult,        \* what the aggregator returned for aggInput
    aggAttempts       \* aggregator calls made for aggInput

feVars == <<state, pending, callCount, postCount, lastPost, lastSettled,
            succeeded, failed, serverClock, page, portfolioMount,
            portfolioLoading, events, received, lastCall, lastRemoved>>
pageVars == <<pageLoading, fetches, trendingCompanies, sectorData>>
aggVars == <<aggInput, aggResult, aggAttempts>>
vars == <<state, pending, callCount, postCount, lastPost, lastSettled,
          succeeded, failed, serverClock, page, portfolioMount,
          portfolioLoading, events, received, lastCall, lastRemoved,
          pageLoading, fetches, trendingCompanies, sectorData,
          aggInput, aggResult, aggAttempts>>

----------------------------------------------------------------------------
(* Bounds of the model *)

MaxCalls == 2
MaxEvents == 1
MaxMounts == 1
MaxSocketEvents == 11
MaxLiveCalls == 1
MaxLiveEvents == 3
MaxRecords == 3
MaxAnalyses == 6
MaxPageCalls == 1

----------------------------------------------------------------------------
(* Values *)

\* null and undefined are the empty sequence; a value v is <<v>>
Null == << >>
Some(v) == <<v>>

DefaultErrorMessage == "Failed to analyze company"

\* what the user can have typed in a symbol field
TypedSymbols == {"", " ", "aapl", "AAPL", "msft"}

\* String.prototype.trim
trim(s) ==
    CASE s = " " -> ""
      [] OTHER -> s

\* String.prototype.toUpperCase
toUpperCase(s) ==
    CASE s = "aapl" -> "AAPL"
      [] s = "msft" -> "MSFT"
      [] OTHER -> s

\* the <option> values of the Analysis Period select
DaysBackOptions == {7, 30, 90, 180}

DefaultDaysBack == 30

\* error.response?.data?.detail of a failed request: nothing, or a string
FailureDetails == {Null, Some(""), Some("Company not found")}

\* JavaScript truthiness of an optional string
Truthy(d) == d # Null /\ d[1] # ""

\* payloads the socket can deliver
AnalysisCompleteEvents ==
    {[symbol |-> s, event |-> "analysis_complete"] : s \in {"AAPL", "MSFT"}}
MarketUpdates == {"market-1", "market-2"}

Pages == {"Dashboard", "Analysis", "Portfolio"}

\* the routes of the pages that are modelled
Routes == Pages \cup {"Market"}

\* the pages that load the trending companies and the sector analysis
DataPages == {"Dashboard", "Market"}

Fetches == {"trending", "sectors"}

\* what GET /market/trending and GET /market/sectors can do: answer with a
\* list, answer without the field that is read, or fail
FetchedLists == {<< >>, <<"AAPL">>, <<"AAPL", "MSFT">>}
FetchResponses ==
    {[ok |-> TRUE, field |-> Some(l)] : l \in FetchedLists}
    \cup {[ok |-> TRUE, field |-> Null], [ok |-> FALSE, field |-> Null]}

----------------------------------------------------------------------------
(* The reducer *)

initialState ==
    [companies |-> << >>,
     currentAnalysis |-> Null,
     loading |-> FALSE,
     error |-> Null,
     marketData |-> Null,
     portfolio |-> << >>,
     notifications |-> << >>,
     socket |-> Null]

\* a filter that drops only the first item of the symbol
RECURSIVE filterFirstSymbol(_, _)
filterFirstSymbol(items, symbol) ==
    IF items = << >> THEN << >>
    ELSE IF Head(items).symbol # symbol
         THEN <<Head(items)>> \o filterFirstSymbol(Tail(items), symbol)
         ELSE Tail(items)

\* Array.prototype.filter(item => item.symbol !== symbol)
RECURSIVE filterSymbol(_, _)
filterSymbol(items, symbol) ==
    IF items = << >> THEN << >>
    ELSE IF Head(items).symbol # symbol
         THEN <<Head(items)>> \o filterSymbol(Tail(items), symbol)
         ELSE filterSymbol(Tail(items), symbol)

\* a slice that keeps one item more
slice0OneMore(items, n) ==
    SubSeq(items, 1, IF Len(items) < n + 1 THEN Len(items) ELSE n + 1)

\* Array.prototype.slice(0, n)
slice0(items, n) == SubSeq(items, 1, IF Len(items) < n THEN Len(items) ELSE n)

NotificationsKept == 9

\* an ADD_COMPANY that replaces the records of the same symbol
AddCompanyReplacing(s, payload) ==
    [s EXCEPT !.companies =
                  Append(filterSymbol(s.companies, payload.symbol), payload),
              !.loading = FALSE]

\* case 'ADD_COMPANY'
AddCompany(s, payload) ==
    [s EXCEPT !.companies = Append(s.companies, payload), !.loading = FALSE]

\* an UPDATE_MARKET_DATA that also ends the loading state
UpdateMarketDataEndsLoading(s, payload) ==
    [s EXCEPT !.marketData = payload, !.loading = FALSE]

\* case 'UPDATE_MARKET_DATA'
UpdateMarketData(s, payload) == [s EXCEPT !.marketData = payload]

\* an ADD_NOTIFICATION that puts the notification at the end of the list
AddNotificationAtEnd(s, payload) ==
    [s EXCEPT !.notifications =
                  slice0(s.notifications, NotificationsKept) \o <<payload>>]

\* case 'ADD_NOTIFICATION'
AddNotification(s, payload) ==
    [s EXCEPT !.notifications =
                  <<payload>> \o slice0(s.notifications, NotificationsKept)]

\* case 'REMOVE_FROM_PORTFOLIO'
RemoveFromPortfolio(s, payload) ==
    [s EXCEPT !.portfolio = filterSymbol(s.portfolio, payload)]

esgReducer(s, action) ==
    CASE action.type = "SET_LOADING" ->
            [s EXCEPT !.loading = action.payload]
      [] action.type = "SET_ERROR" ->
            [s EXCEPT !.error = action.payload, !.loading = FALSE]
      [] action.type = "SET_CURRENT_ANALYSIS" ->
            [s EXCEPT !.currentAnalysis = action.payload, !.loading = FALSE]
      [] action.type = "ADD_COMPANY" ->
            AddCompany(s, action.payload)
      [] action.type = "UPDATE_MARKET_DATA" ->
            UpdateMarketData(s, action.payload)
      [] action.type = "ADD_TO_PORTFOLIO" ->
            [s EXCEPT !.portfolio = Append(s.portfolio, action.payload)]
      [] action.type = "REMOVE_FROM_PORTFOLIO" ->
            RemoveFromPortfolio(s, action.payload)
      [] action.type = "ADD_NOTIFICATION" ->
            AddNotification(s, action.payload)
      [] action.type = "SET_SOCKET" ->
            [s EXCEPT !.socket = action.payload]
      [] OTHER -> s

dispatch(s, type, payload) == esgReducer(s, [type |-> type, payload |-> payload])

----------------------------------------------------------------------------
(* analyzeCompany and the handlers that call it *)

\* a body that always asks for the default period
PostBodyDefaultPeriod(symbol, daysBack) ==
    [symbol |-> symbol,
     days_back |-> DefaultDaysBack,
     include_competitors |-> FALSE]

\* the body analyzeCompany posts; daysBack is Null when the caller passes none
PostBody(symbol, daysBack) ==
    [symbol |-> symbol,
     days_back |-> IF daysBack = Null THEN DefaultDaysBack ELSE daysBack[1],
     include_competitors |-> FALSE]

\* the record the back end answers with
ResponseData(call) ==
    [symbol |-> call.symbol, analysis_timestamp |-> serverClock]

\* a call that posts without dispatching SET_LOADING first
analyzeCompanyCallNoLoading(origin, symbol, daysBack) ==
    /\ callCount < MaxCalls
    /\ state' = state
    /\ callCount' = callCount + 1
    /\ postCount' = postCount + 1
    /\ lastPost' = Some(PostBody(symbol, daysBack))
    /\ lastCall' = Some([origin |-> origin, symbol |-> symbol,
                         daysBack |-> daysBack])
    /\ pending' = pending \cup
           {[id |-> callCount + 1, origin |-> origin, symbol |-> symbol,
             mount |-> portfolioMount]}

\* analyzeCompany up to its await: SET_LOADING, then the POST
analyzeCompanyCall(origin, symbol, daysBack) ==
    /\ callCount < MaxCalls
    /\ state' = dispatch(state, "SET_LOADING", TRUE)
    /\ callCount' = callCount + 1
    /\ postCount' = postCount + 1
    /\ lastPost' = Some(PostBody(symbol, daysBack))
    /\ lastCall' = Some([origin |-> origin, symbol |-> symbol,
                         daysBack |-> daysBack])
    /\ pending' = pending \cup
           {[id |-> callCount + 1, origin |-> origin, symbol |-> symbol,
             mount |-> portfolioMount]}

\* a continuation that stores the analysis but does not add the company
analyzeCompanyThenNoAdd(s, data) ==
    dispatch(s, "SET_CURRENT_ANALYSIS", Some(data))

\* analyzeCompany after its await, the request having succeeded
analyzeCompanyThen(s, data) ==
    dispatch(dispatch(s, "SET_CURRENT_ANALYSIS", Some(data)),
             "ADD_COMPANY", data)

\* a catch block that never reports the server's detail
analyzeCompanyCatchNoDetail(s, detail) ==
    dispatch(s, "SET_ERROR", Some(DefaultErrorMessage))

\* a catch block that also forgets the analysis on show
analyzeCompanyCatchClearing(s, detail) ==
    dispatch(dispatch(s, "SET_CURRENT_ANALYSIS", Null), "SET_ERROR",
             Some(IF Truthy(detail) THEN detail[1] ELSE DefaultErrorMessage))

\* a catch block that reports the error and leaves loading as it is
analyzeCompanyCatchKeepsLoading(s, detail) ==
    [s EXCEPT !.error =
        Some(IF Truthy(detail) THEN detail[1] ELSE DefaultErrorMessage)]

\* analyzeCompany's catch block
analyzeCompanyCatch(s, detail) ==
    dispatch(s, "SET_ERROR",
             Some(IF Truthy(detail) THEN detail[1] ELSE DefaultErrorMessage))

addToPortfolio(s, company) == dispatch(s, "ADD_TO_PORTFOLIO", company)

removeFromPortfolio(s, symbol) == dispatch(s, "REMOVE_FROM_PORTFOLIO", symbol)

\* a catch block of handleAddToPortfolio that adds an entry all the same
handleAddToPortfolioCatchAdding(s, symbol) ==
    addToPortfolio(s, [symbol |-> symbol, analysis_timestamp |-> 0])

\* the catch block of Portfolio.handleAddToPortfolio: a toast, and nothing of
\* the shared state
handleAddToPortfolioCatch(s, symbol) == s

\* the Portfolio instance that made the call is still the mounted one
StillMounted(call) == page = "Portfolio" /\ call.mount = portfolioMount

\* Analysis.handleAnalyze up to the await
HandleAnalyze(typed, daysBack) ==
    /\ page = "Analysis"
    /\ ~state.loading
    /\ IF trim(typed) = ""
       THEN UNCHANGED <<state, pending, callCount, postCount, lastPost,
                        lastCall>>
       ELSE analyzeCompanyCall("Analysis", toUpperCase(typed), Some(daysBack))
    /\ UNCHANGED <<lastSettled, succeeded, failed, serverClock, page,
                   portfolioMount, portfolioLoading, events, received,
                   lastRemoved>>
    /\ UNCHANGED pageVars
    /\ UNCHANGED aggVars

\* Portfolio.handleAddToPortfolio up to the await
HandleAddToPortfolio(typed) ==
    /\ page = "Portfolio"
    /\ ~portfolioLoading
    /\ IF trim(typed) = ""
       THEN UNCHANGED <<state, pending, callCount, postCount, lastPost,
                        lastCall, portfolioLoading>>
       ELSE /\ portfolioLoading' = TRUE
            /\ analyzeCompanyCall("Portfolio", toUpperCase(typed), Null)
    /\ UNCHANGED <<lastSettled, succeeded, failed, serverClock, page,
                   portfolioMount, events, received, lastRemoved>>
    /\ UNCHANGED pageVars
    /\ UNCHANGED aggVars

\* the request of a pending call succeeds: the rest of analyzeCompany and then
\* the rest of the handler that awaited it
AnalyzeResolve(call) ==
    /\ call \in pending
    /\ LET data == ResponseData(call)
           s1 == analyzeCompanyThen(state, data)
       IN  IF call.origin = "Portfolio"
           THEN /\ state' = addToPortfolio(s1, data)
                /\ portfolioLoading' =
                       IF StillMounted(call) THEN FALSE ELSE portfolioLoading
           ELSE /\ state' = s1
                /\ UNCHANGED portfolioLoading
    /\ pending' = pending \ {call}
    /\ lastSettled' =
           Some([origin |-> call.origin, outcome |-> "returned",
                 detail |-> Null,
                 toast |-> IF call.origin = "Portfolio"
                           THEN "added to portfolio"
                           ELSE "Analysis complete"])
    /\ succeeded' = succeeded + 1
    /\ serverClock' = serverClock + 1
    /\ UNCHANGED <<callCount, postCount, lastPost, failed, page,
                   portfolioMount, events, received, lastCall, lastRemoved>>
    /\ UNCHANGED pageVars
    /\ UNCHANGED aggVars

\* the request of a pending call fails: analyzeCompany's catch block and then
\* the catch (and finally) block of the handler that awaited it
AnalyzeReject(call, detail) ==
    /\ call \in pending
    /\ state' = IF call.origin = "Portfolio"
                THEN handleAddToPortfolioCatch(
                         analyzeCompanyCatch(state, detail), call.symbol)
                ELSE analyzeCompanyCatch(state, detail)
    /\ portfolioLoading' =
           IF call.origin = "Portfolio" /\ StillMounted(call)
           THEN FALSE ELSE portfolioLoading
    /\ pending' = pending \ {call}
    /\ lastSettled' =
           Some([origin |-> call.origin, outcome |-> "threw",
                 detail |-> detail,
                 toast |-> IF call.origin = "Portfolio"
                           THEN "Failed to add company to portfolio"
                           ELSE "Analysis failed"])
    /\ failed' = failed + 1
    /\ UNCHANGED <<callCount, postCount, lastPost, succeeded, serverClock,
                   page, portfolioMount, events, received, lastCall,
                   lastRemoved>>
    /\ UNCHANGED pageVars
    /\ UNCHANGED aggVars

\* Portfolio.handleRemoveFromPortfolio, clicked on row i of the list
HandleRemoveFromPortfolio(i) ==
    /\ page = "Portfolio"
    /\ i \in 1..Len(state.portfolio)
    /\ state' = removeFromPortfolio(state, state.portfolio[i].symbol)
    /\ lastRemoved' = Some(state.portfolio[i].symbol)
    /\ UNCHANGED <<pending, callCount, postCount, lastPost, lastSettled,
                   succeeded, failed, serverClock, page, portfolioMount,
                   portfolioLoading, events, received, lastCall>>
    /\ UNCHANGED pageVars
    /\ UNCHANGED aggVars

----------------------------------------------------------------------------
(* The Dashboard and Market pages' load of the market data *)

\* a getTrendingCompanies that lets the failure of its request through
getTrendingCompaniesRethrowing(response) ==
    IF response.ok
    THEN [threw |-> FALSE, value |-> response.field]
    ELSE [threw |-> TRUE, value |-> Null]

\* getTrendingCompanies after its await: response.data.trending_companies,
\* or [] from its catch block
getTrendingCompanies(response) ==
    IF response.ok
    THEN [threw |-> FALSE, value |-> response.field]
    ELSE [threw |-> FALSE, value |-> Some(<< >>)]

\* getSectorAnalysis after its await: response.data.sector_analysis, or []
\* from its catch block
getSectorAnalysis(response) ==
    IF response.ok
    THEN [threw |-> FALSE, value |-> response.field]
    ELSE [threw |-> FALSE, value |-> Some(<< >>)]

\* x || []
OrEmpty(x) == IF x = Null THEN << >> ELSE x[1]

NotSettled == [threw |-> FALSE, value |-> Null]

\* a fetch of the mounted page has settled
Settled(fs, f) == fs[f].status \in {"ok", "failed"}

\* the local state of page p when it has just been mounted: useState(true)
\* and the useEffect that starts the load on the Dashboard and Market pages
MountedFetches(p) ==
    [f \in Fetches |->
        [status |-> IF p \in DataPages THEN "pending" ELSE "none",
         result |-> NotSettled]]

InitPage(p) ==
    /\ pageLoading = (p \in DataPages)
    /\ fetches = MountedFetches(p)
    /\ trendingCompanies = << >>
    /\ sectorData = << >>

MountPage(p) ==
    /\ pageLoading' = (p \in DataPages)
    /\ fetches' = MountedFetches(p)
    /\ trendingCompanies' = << >>
    /\ sectorData' = << >>

\* Dashboard.loadDashboardData after its await of Promise.all
loadDashboardData(fs) ==
    IF \E f \in Fetches : fs[f].result.threw
    THEN /\ pageLoading' = FALSE
         /\ UNCHANGED <<trendingCompanies, sectorData>>
    ELSE /\ trendingCompanies' = OrEmpty(fs["trending"].result.value)
         /\ sectorData' = OrEmpty(fs["sectors"].result.value)
         /\ pageLoading' = FALSE

\* Market.loadMarketData after its await of Promise.all
loadMarketData(fs) ==
    IF \E f \in Fetches : fs[f].result.threw
    THEN /\ pageLoading' = FALSE
         /\ UNCHANGED <<trendingCompanies, sectorData>>
    ELSE /\ sectorData' = OrEmpty(fs["sectors"].result.value)
         /\ trendingCompanies' = OrEmpty(fs["trending"].result.value)
         /\ pageLoading' = FALSE

\* the request of fetch f of the mounted page settles; Promise.all settles
\* when both fetches have (or when one has thrown), and the load goes on
FetchSettle(f, response) ==
    /\ page \in DataPages
    /\ fetches[f].status = "pending"
    /\ LET result == IF f = "trending" THEN getTrendingCompanies(response)
                     ELSE getSectorAnalysis(response)
           fs == [fetches EXCEPT
                     ![f] = [status |-> IF response.ok THEN "ok" ELSE "failed",
                             result |-> result]]
       IN  /\ fetches' = fs
           /\ IF pageLoading /\ (result.threw \/ \A g \in Fetches : Settled(fs, g))
              THEN IF page = "Dashboard" THEN loadDashboardData(fs)
                   ELSE loadMarketData(fs)
              ELSE UNCHANGED <<pageLoading, trendingCompanies, sectorData>>
    /\ UNCHANGED feVars
    /\ UNCHANGED aggVars

\* the router mounts another page; a page's local state dies with it
Navigate(p) ==
    /\ p \in Routes
    /\ p # page
    /\ page' = p
    /\ MountPage(p)
    /\ portfolioLoading' = FALSE
    /\ IF p = "Portfolio"
       THEN /\ portfolioMount < MaxMounts
            /\ portfolioMount' = portfolioMount + 1
       ELSE UNCHANGED portfolioMount
    /\ UNCHANGED <<state, pending, callCount, postCount, lastPost,
                   lastSettled, succeeded, failed, serverClock, events,
                   received, lastCall, lastRemoved>>
    /\ UNCHANGED aggVars

----------------------------------------------------------------------------
(* The socket *)

\* the notification of an event; Date.now() is taken to be the number of the
\* event
Notification(data, id) ==
    [id |-> id,
     type |-> "success",
     message |-> <<"Analysis complete for ", data.symbol>>,
     timestamp |-> id,
     data |-> data]

\* socket.on('analysis_complete')
OnAnalysisComplete(data) ==
    /\ state' = dispatch(state, "ADD_NOTIFICATION",
                          Notification(data, events + 1))
    /\ events' = events + 1
    /\ received' = Append(received, data)
    /\ UNCHANGED <<pending, callCount, postCount, lastPost, lastSettled,
                   succeeded, failed, serverClock, page, portfolioMount,
                   portfolioLoading, lastCall, lastRemoved>>
    /\ UNCHANGED pageVars
    /\ UNCHANGED aggVars

\* socket.on('market_update')
OnMarketUpdate(data) ==
    /\ state' = dispatch(state, "UPDATE_MARKET_DATA", Some(data))
    /\ events' = events + 1
    /\ UNCHANGED <<pending, callCount, postCount, lastPost, lastSettled,
                   succeeded, failed, serverClock, page, portfolioMount,
                   portfolioLoading, received, lastCall, lastRemoved>>
    /\ UNCHANGED pageVars
    /\ UNCHANGED aggVars

----------------------------------------------------------------------------
(* The ESG aggregator *)

\* the weights the configuration ships, in hundredths
ESG_ENVIRONMENTAL_WEIGHT == 35
ESG_SOCIAL_WEIGHT == 35
ESG_GOVERNANCE_WEIGHT == 30

\* a configuration that gives governance the weight 0.40
DefaultWeightsHeavyGovernance ==
    [wE |-> ESG_ENVIRONMENTAL_WEIGHT,
     wS |-> ESG_SOCIAL_WEIGHT,
     wG |-> ESG_GOVERNANCE_WEIGHT + 10]

DefaultWeights ==
    [wE |-> ESG_ENVIRONMENTAL_WEIGHT,
     wS |-> ESG_SOCIAL_WEIGHT,
     wG |-> ESG_GOVERNANCE_WEIGHT]

\* one point of score, and the whole of the weight, in the model's units
ScoreUnit == 10
WeightUnit == 100
OverallUnit == ScoreUnit * WeightUnit

\* sub-scores (tenths) and weights (hundredths) the aggregator is called with
EnvironmentalValues ==
    {0, 349, 350, 499, 500, 599, 600, 649, 650, 700, 799, 800, 900, 1000, 1100}
SocialValues == {0, 500, 700, 1000}
GovernanceValues == {0, 500, 600, 1000}
WeightValues == {-50, 0, 30, 35, 40, 100, 150}

AggregatorInputs ==
    [environmental : EnvironmentalValues,
     social : SocialValues,
     governance : GovernanceValues,
     wE : WeightValues, wS : WeightValues, wG : WeightValues]

\* a check that accepts weights summing to 1 or more
WeightsSumToAtLeastOne(in) == in.wE + in.wS + in.wG >= WeightUnit

\* the weights sum to 1
WeightsSumToOne(in) == in.wE + in.wS + in.wG = WeightUnit

\* an aggregation that counts governance in full
OverallGovernanceUnweighted(in) ==
    in.environmental * in.wE + in.social * in.wS + in.governance * WeightUnit

\* an aggregation that subtracts the social term
OverallSocialSubtracted(in) ==
    in.environmental * in.wE - in.social * in.wS + in.governance * in.wG

\* overall = environmental*wE + social*wS + governance*wG
Overall(in) ==
    in.environmental * in.wE + in.social * in.wS + in.governance * in.wG

\* a bucketing whose first threshold is exclusive
RiskRatingExclusive(overall) ==
    IF overall > 80 * OverallUnit THEN "LowRisk"
    ELSE IF overall >= 65 * OverallUnit THEN "MediumLowRisk"
    ELSE IF overall >= 50 * OverallUnit THEN "MediumRisk"
    ELSE IF overall >= 35 * OverallUnit THEN "MediumHighRisk"
    ELSE "HighRisk"

\* the risk bucket of an overall score
RiskRating(overall) ==
    IF overall >= 80 * OverallUnit THEN "LowRisk"
    ELSE IF overall >= 65 * OverallUnit THEN "MediumLowRisk"
    ELSE IF overall >= 50 * OverallUnit THEN "MediumRisk"
    ELSE IF overall >= 35 * OverallUnit THEN "MediumHighRisk"
    ELSE "HighRisk"

NoResult == [status |-> "none", overall |-> Null, risk_rating |-> Null]

\* the aggregator: a ScoreSet, or a ValidationError
Aggregate(in) ==
    IF ~WeightsSumToOne(in)
    THEN [status |-> "ValidationError", overall |-> Null, risk_rating |-> Null]
    ELSE [status |-> "ok",
          overall |-> Some(Overall(in)),
          risk_rating |-> Some(RiskRating(Overall(in)))]

\* ESGScoreCard: percentage = (score / maxScore) * 100, in thousandths
percentage(score, maxScore) == (score * 100) \div maxScore

\* ESGScoreCard.getRiskLevel
getRiskLevel(pct) ==
    IF pct >= 80 * OverallUnit THEN "Low Risk"
    ELSE IF pct >= 60 * OverallUnit THEN "Medium Risk"
    ELSE "High Risk"

\* the label of a rating as the pages spell it (getRiskColor's cases)
RiskLabel(rating) ==
    CASE rating = "LowRisk" -> "Low Risk"
      [] rating = "MediumLowRisk" -> "Medium-Low Risk"
      [] rating = "MediumRisk" -> "Medium Risk"
      [] rating = "MediumHighRisk" -> "Medium-High Risk"
      [] rating = "HighRisk" -> "High Risk"
      [] OTHER -> "Unknown Risk"

\* one call of the aggregator
AggregatorCall ==
    /\ aggResult.status = "none"
    /\ aggResult' = Aggregate(aggInput)
    /\ aggAttempts' = aggAttempts + 1
    /\ UNCHANGED aggInput
    /\ UNCHANGED feVars
    /\ UNCHANGED pageVars

----------------------------------------------------------------------------
(* Specifications *)

InitFrontEnd ==
    /\ state = dispatch(initialState, "SET_SOCKET", Some("socket"))
    /\ pending = {}
    /\ callCount = 0
    /\ postCount = 0
    /\ lastPost = Null
    /\ lastSettled = Null
    /\ succeeded = 0
    /\ failed = 0
    /\ serverClock = 1
    /\ page = "Dashboard"
    /\ portfolioMount = 0
    /\ portfolioLoading = FALSE
    /\ events = 0
    /\ received = << >>
    /\ lastCall = Null
    /\ lastRemoved = Null
    /\ InitPage("Dashboard")

ExampleInput ==
    [environmental |-> 900, social |-> 700, governance |-> 600,
     wE |-> DefaultWeights.wE, wS |-> DefaultWeights.wS,
     wG |-> DefaultWeights.wG]

Init ==
    /\ InitFrontEnd
    /\ aggInput = ExampleInput
    /\ aggResult = NoResult
    /\ aggAttempts = 0

Next ==
    \/ \E typed \in TypedSymbols, d \in DaysBackOptions : HandleAnalyze(typed, d)
    \/ \E typed \in TypedSymbols : HandleAddToPortfolio(typed)
    \/ \E call \in pending : AnalyzeResolve(call)
    \/ \E call \in pending, detail \in FailureDetails : AnalyzeReject(call, detail)
    \/ \E i \in 1..Len(state.portfolio) : HandleRemoveFromPortfolio(i)
    \/ \E p \in Pages : Navigate(p)
    \/ \E data \in AnalysisCompleteEvents :
          events < MaxEvents /\ OnAnalysisComplete(data)
    \/ \E data \in MarketUpdates :
          events < MaxEvents /\ OnMarketUpdate(data)

Spec == Init /\ [][Next]_vars

\* the aggregator alone, called once on each input
InitAggregator ==
    /\ InitFrontEnd
    /\ aggInput \in AggregatorInputs \cup {ExampleInput}
    /\ aggResult = NoResult
    /\ aggAttempts = 0

NextAggregator == AggregatorCall

SpecAggregator == InitAggregator /\ [][NextAggregator]_vars

\* the socket alone, up to the event after which the list of notifications
\* is full
NextSocket ==
    \/ \E data \in AnalysisCompleteEvents :
          events < MaxSocketEvents /\ OnAnalysisComplete(data)
    \/ events < MaxSocketEvents /\ OnMarketUpdate("market-1")

SpecSocket == Init /\ [][NextSocket]_vars

\* every operation of the front end, with few analyses and more events
NextLive ==
    \/ \E typed \in TypedSymbols, d \in DaysBackOptions :
          callCount < MaxLiveCalls /\ HandleAnalyze(typed, d)
    \/ \E typed \in TypedSymbols :
          callCount < MaxLiveCalls /\ HandleAddToPortfolio(typed)
    \/ \E call \in pending : AnalyzeResolve(call)
    \/ \E call \in pending, detail \in FailureDetails : AnalyzeReject(call, detail)
    \/ \E i \in 1..Len(state.portfolio) : HandleRemoveFromPortfolio(i)
    \/ \E p \in Pages : Navigate(p)
    \/ \E data \in AnalysisCompleteEvents :
          events < MaxLiveEvents /\ OnAnalysisComplete(data)
    \/ \E data \in MarketUpdates :
          events < MaxLiveEvents /\ OnMarketUpdate(data)

SpecLive == Init /\ [][NextLive]_vars

\* the symbols of the records the back end answers with
Symbols == {"AAPL", "MSFT"}

\* the lists of n records that n successful analyses leave in companies
CompaniesOfLength(n) ==
    {[i \in 1..n |-> [symbol |-> f[i], analysis_timestamp |-> i]] :
        f \in [1..n -> Symbols]}

\* the records of items at the positions in keep, in their order
RECURSIVE SubList(_, _)
SubList(items, keep) ==
    IF items = << >> THEN << >>
    ELSE LET n == Len(items)
             front == SubList(SubSeq(items, 1, n - 1), keep)
         IN  IF n \in keep THEN Append(front, items[n]) ELSE front

\* the front end after n successful analyses, those at the positions in keep
\* made from the Portfolio page
StateAfterAnalyses(companies, keep) ==
    [dispatch(initialState, "SET_SOCKET", Some("socket")) EXCEPT
        !.companies = companies,
        !.currentAnalysis =
            IF companies = << >> THEN Null
            ELSE Some(companies[Len(companies)]),
        !.portfolio = SubList(companies, keep)]

\* removeFromPortfolio alone, called with any symbol on any portfolio
InitPortfolio ==
    /\ \E n \in 0..MaxRecords :
          /\ \E companies \in CompaniesOfLength(n), keep \in SUBSET (1..n) :
                state = StateAfterAnalyses(companies, keep)
          /\ callCount = n
          /\ postCount = n
          /\ succeeded = n
          /\ serverClock = n + 1
    /\ pending = {}
    /\ lastPost = Null
    /\ lastSettled = Null
    /\ failed = 0
    /\ page = "Portfolio"
    /\ InitPage("Portfolio")
    /\ portfolioMount = 1
    /\ portfolioLoading = FALSE
    /\ events = 0
    /\ received = << >>
    /\ lastCall = Null
    /\ lastRemoved = Null
    /\ aggInput = ExampleInput
    /\ aggResult = NoResult
    /\ aggAttempts = 0

\* a call of the context's removeFromPortfolio
CallRemoveFromPortfolio(symbol) ==
    /\ state' = removeFromPortfolio(state, symbol)
    /\ lastRemoved' = Some(symbol)
    /\ UNCHANGED <<pending, callCount, postCount, lastPost, lastSettled,
                   succeeded, failed, serverClock, page, portfolioMount,
                   portfolioLoading, events, received, lastCall>>
    /\ UNCHANGED pageVars
    /\ UNCHANGED aggVars

NextPortfolio == \E symbol \in Symbols : CallRemoveFromPortfolio(symbol)

SpecPortfolio == InitPortfolio /\ [][NextPortfolio]_vars

\* the Dashboard page: how many records it hands to RecentAnalyses
RecentShown == 5

\* the companies prop the Dashboard passes to RecentAnalyses:
\* companies.slice(0, 5)
RecentAnalysesCompanies(s) == slice0(s.companies, RecentShown)

\* the front end after up to MaxAnalyses successful analyses made from the
\* Analysis page, that page being the one mounted
InitRecent ==
    /\ \E n \in 0..MaxAnalyses :
          /\ \E companies \in CompaniesOfLength(n) :
                state = StateAfterAnalyses(companies, {})
          /\ callCount = n
          /\ postCount = n
          /\ succeeded = n
          /\ serverClock = n + 1
    /\ pending = {}
    /\ lastPost = Null
    /\ lastSettled = Null
    /\ failed = 0
    /\ page = "Analysis"
    /\ InitPage("Analysis")
    /\ portfolioMount = 0
    /\ portfolioLoading = FALSE
    /\ events = 0
    /\ received = << >>
    /\ lastCall = Null
    /\ lastRemoved = Null
    /\ aggInput = ExampleInput
    /\ aggResult = NoResult
    /\ aggAttempts = 0

\* analyses that succeed, and the router
NextRecent ==
    \/ \E typed \in TypedSymbols, d \in DaysBackOptions : HandleAnalyze(typed, d)
    \/ \E call \in pending : AnalyzeResolve(call)
    \/ \E p \in Pages : Navigate(p)

SpecRecent == InitRecent /\ [][NextRecent]_vars

\* the request of the call numbered id settles, with a response or a failure
SettleCall(id) ==
    \E call \in pending :
        /\ call.id = id
        /\ \/ AnalyzeResolve(call)
           \/ \E detail \in FailureDetails : AnalyzeReject(call, detail)

\* the analyses and the router
NextSettle ==
    \/ \E typed \in TypedSymbols, d \in DaysBackOptions : HandleAnalyze(typed, d)
    \/ \E typed \in TypedSymbols : HandleAddToPortfolio(typed)
    \/ \E call \in pending : AnalyzeResolve(call)
    \/ \E call \in pending, detail \in FailureDetails : AnalyzeReject(call, detail)
    \/ \E p \in Pages : Navigate(p)

\* the analyses, every request that was sent settling in the end
SpecSettle ==
    /\ Init
    /\ [][NextSettle]_vars
    /\ \A id \in 1..MaxCalls : WF_vars(SettleCall(id))

\* the Dashboard and Market pages' loads, among analyses made from the
\* Analysis page
NextPages ==
    \/ \E p \in Routes : Navigate(p)
    \/ \E f \in Fetches, response \in FetchResponses : FetchSettle(f, response)
    \/ \E typed \in TypedSymbols, d \in DaysBackOptions :
          callCount < MaxPageCalls /\ HandleAnalyze(typed, d)
    \/ \E call \in pending : AnalyzeResolve(call)
    \/ \E call \in pending, detail \in FailureDetails : AnalyzeReject(call, detail)

SpecPages == Init /\ [][NextPages]_vars

----------------------------------------------------------------------------
(* Properties of the aggregator, checked under SpecAggregator *)

Called == aggResult.status # "none"
Returned == aggResult.status = "ok"

InScoreRange(x) == 0 <= x /\ x <= 100 * ScoreUnit
InWeightRange(w) == 0 <= w /\ w <= WeightUnit

ScoresInRange(in) ==
    /\ InScoreRange(in.environmental)
    /\ InScoreRange(in.social)
    /\ InScoreRange(in.governance)

WeightsInRange(in) ==
    InWeightRange(in.wE) /\ InWeightRange(in.wS) /\ InWeightRange(in.wG)

\* the input of the spec's example: 90, 70, 60 with weights 0.35/0.35/0.30
IsExample(in) ==
    /\ in.environmental = 90 * ScoreUnit
    /\ in.social = 70 * ScoreUnit
    /\ in.governance = 60 * ScoreUnit
    /\ in.wE = 35 /\ in.wS = 35 /\ in.wG = 30

\* C1: for sub-scores in [0,100] and weights summing to 1 the aggregator
\* returns overall = environmental*wE + social*wS + governance*wG; the shipped
\* default weights are 0.35/0.35/0.30, and with them 90, 70, 60 gives 74.0
C1_OverallIsWeightedSum ==
    /\ DefaultWeights = [wE |-> 35, wS |-> 35, wG |-> 30]
    /\ Called =>
        /\ (ScoresInRange(aggInput) /\ WeightsSumToOne(aggInput)) =>
              /\ Returned
              /\ aggResult.overall =
                    Some(aggInput.environmental * aggInput.wE
                         + aggInput.social * aggInput.wS
                         + aggInput.governance * aggInput.wG)
        /\ aggInput = ExampleInput =>
              /\ IsExample(aggInput)
              /\ Returned
              /\ aggResult.overall = Some(74 * OverallUnit)

C1_Witness ==
    /\ IsExample(aggInput)
    /\ Returned
    /\ aggResult.overall = Some(74000)

Ratings == <<"LowRisk", "MediumLowRisk", "MediumRisk", "MediumHighRisk", "HighRisk">>

\* position of a rating in the ordered enum: 1 is the least risky
Rank(r) == CHOOSE i \in 1..Len(Ratings) : Ratings[i] = r

InOverallRange(o) == 0 <= o /\ o <= 100 * OverallUnit

\* overall scores at and around the thresholds
ProbeOveralls ==
    {0, 34900, 34999, 35000, 49999, 50000, 64999, 65000, 79900, 79999,
     80000, 100000}

\* C2: the rating is a step function of overall alone: >= 80 LowRisk,
\* [65,80) MediumLowRisk, [50,65) MediumRisk, [35,50) MediumHighRisk,
\* < 35 HighRisk; each overall in [0,100] is in exactly one bucket and a
\* higher overall never gives a riskier bucket
C2_RiskBuckets ==
    (Returned /\ InOverallRange(aggResult.overall[1])) =>
        LET o == aggResult.overall[1]
            r == aggResult.risk_rating[1]
        IN  /\ r \in {Ratings[i] : i \in 1..Len(Ratings)}
            /\ (r = "LowRisk") <=> (o >= 80000)
            /\ (r = "MediumLowRisk") <=> (65000 <= o /\ o < 80000)
            /\ (r = "MediumRisk") <=> (50000 <= o /\ o < 65000)
            /\ (r = "MediumHighRisk") <=> (35000 <= o /\ o < 50000)
            /\ (r = "HighRisk") <=> (o < 35000)
            /\ \A o2 \in ProbeOveralls :
                  /\ o2 >= o => Rank(RiskRating(o2)) <= Rank(r)
                  /\ o2 <= o => Rank(RiskRating(o2)) >= Rank(r)

C2_Witness ==
    /\ Returned
    /\ aggResult.overall = Some(79900)
    /\ aggResult.risk_rating = Some("MediumLowRisk")

\* the maxScore the Analysis page passes to every score card
MaxScore == 100

\* what the 'Overall ESG' card shows for an overall score
CardRiskLevel(overall) == getRiskLevel(percentage(overall, MaxScore))

\* C3: for every overall in [0,100] the 'Overall ESG' card shows 'Low Risk'
\* exactly when the bucketing rule gives LowRisk and 'High Risk' exactly when
\* the rule gives HighRisk
C3_CardAgreesWithRule ==
    (Returned /\ ScoresInRange(aggInput) /\ WeightsInRange(aggInput)
              /\ InOverallRange(aggResult.overall[1])) =>
        LET level == CardRiskLevel(aggResult.overall[1])
            r == aggResult.risk_rating[1]
        IN  /\ (level = "Low Risk") <=> (r = "LowRisk")
            /\ (level = "High Risk") <=> (r = "HighRisk")

\* C4: for weights in [0,1] summing to 1 and sub-scores in [0,100], overall
\* stays within [0,100]
C4_OverallInRange ==
    (Called /\ ScoresInRange(aggInput) /\ WeightsInRange(aggInput)
            /\ WeightsSumToOne(aggInput)) =>
        /\ Returned
        /\ 0 <= aggResult.overall[1]
        /\ aggResult.overall[1] <= 100 * OverallUnit

C4_Witness ==
    /\ Returned
    /\ ScoresInRange(aggInput) /\ WeightsInRange(aggInput)
    /\ aggInput.wE > 0 /\ aggInput.wS > 0 /\ aggInput.wG > 0
    /\ aggResult.overall = Some(100 * OverallUnit)

\* C5: weights that do not sum to 1 are rejected with a ValidationError, after
\* one call (no retry), and no overall and no rating is produced
C5_BadWeightsRejected ==
    (Called /\ ~(aggInput.wE + aggInput.wS + aggInput.wG = 100)) =>
        /\ aggResult.status = "ValidationError"
        /\ aggResult.overall = Null
        /\ aggResult.risk_rating = Null
        /\ aggAttempts = 1

C5_Witness ==
    /\ aggInput.wE = 40 /\ aggInput.wS = 40 /\ aggInput.wG = 40
    /\ aggResult.status = "ValidationError"
    /\ aggAttempts = 1

NonNegativeWeights(in) == in.wE >= 0 /\ in.wS >= 0 /\ in.wG >= 0

\* C6: with non-negative weights, raising one sub-score while the other two
\* and the weights stay fixed never lowers overall
C6_Monotonic ==
    (Returned /\ NonNegativeWeights(aggInput)) =>
        /\ \A e \in EnvironmentalValues :
              e >= aggInput.environmental =>
                 Aggregate([aggInput EXCEPT !.environmental = e]).overall[1]
                     >= aggResult.overall[1]
        /\ \A x \in SocialValues :
              x >= aggInput.social =>
                 Aggregate([aggInput EXCEPT !.social = x]).overall[1]
                     >= aggResult.overall[1]
        /\ \A g \in GovernanceValues :
              g >= aggInput.governance =>
                 Aggregate([aggInput EXCEPT !.governance = g]).overall[1]
                     >= aggResult.overall[1]

C6_Witness ==
    /\ Returned
    /\ aggInput.wE > 0 /\ aggInput.wS > 0 /\ aggInput.wG > 0
    /\ aggInput.environmental < 1000
    /\ aggInput.social < 1000
    /\ aggInput.governance < 1000

----------------------------------------------------------------------------
(* Properties of the front end, checked under Spec *)

\* a is a prefix of b
IsPrefix(a, b) ==
    /\ Len(a) <= Len(b)
    /\ \A i \in 1..Len(a) : b[i] = a[i]

\* C8: records are immutable once stored: every step keeps each record of
\* state.companies at its position with its content, and a successful
\* analysis, also of a symbol analysed before, appends one new record
C8_RecordsImmutable ==
    [][/\ IsPrefix(state.companies, state'.companies)
       /\ succeeded' # succeeded =>
             /\ Len(state'.companies) = Len(state.companies) + 1
             /\ \A i \in 1..Len(state.companies) :
                   state'.companies[Len(state'.companies)] # state.companies[i]
      ]_vars

C8_Witness ==
    /\ Len(state.companies) = 2
    /\ state.companies[1].symbol = state.companies[2].symbol
    /\ state.companies[1] # state.companies[2]

\* C9: each analyzeCompany call whose request succeeds appends exactly one
\* record to state.companies and each call whose request fails appends none,
\* so the length of companies is the number of requests that have succeeded
C9_OneRecordPerSuccess ==
    /\ [](Len(state.companies) = succeeded)
    /\ [][/\ succeeded' = succeeded + 1 =>
                \E call \in pending :
                   state'.companies =
                       Append(state.companies, ResponseData(call))
          /\ failed' = failed + 1 => state'.companies = state.companies
         ]_vars

C9_Witness ==
    /\ succeeded = 1
    /\ failed = 1
    /\ Len(state.companies) = 1

\* the message a failure with this detail is reported with
ReportedError(detail) ==
    IF detail = Null \/ detail = Some("") THEN "Failed to analyze company"
    ELSE detail[1]

\* C10: when the request of an analyzeCompany call fails, no further request
\* is sent, state.error becomes the server's detail message (or 'Failed to
\* analyze company' when there is none), loading becomes false,
\* currentAnalysis, companies and portfolio are unchanged, and the failure is
\* thrown to the caller, whose catch block runs
C10_FailureSurfaced ==
    [][failed' = failed + 1 =>
          /\ postCount' = postCount
          /\ callCount' = callCount
          /\ lastSettled' # Null
          /\ lastSettled'[1].outcome = "threw"
          /\ state'.error = Some(ReportedError(lastSettled'[1].detail))
          /\ state'.loading = FALSE
          /\ state'.currentAnalysis = state.currentAnalysis
          /\ state'.companies = state.companies
          /\ state'.portfolio = state.portfolio
          /\ lastSettled'[1].toast \in
                {"Analysis failed", "Failed to add company to portfolio"}
      ]_vars

C10_Witness ==
    /\ failed = 1
    /\ postCount = 1
    /\ lastSettled # Null
    /\ lastSettled[1].outcome = "threw"
    /\ state.error = Some("Company not found")
    /\ ~state.loading
    /\ state.companies = << >>

\* the Analysis page's loading panel: {loading && ...}
LoadingPanel == page = "Analysis" /\ state.loading

\* the Analysis page's results panel: {currentAnalysis && !loading && ...}
ResultsPanel ==
    page = "Analysis" /\ state.currentAnalysis # Null /\ ~state.loading

\* C11: an analysis runs as fetch, store, render: the step that sends the
\* request leaves loading true; currentAnalysis and companies change only in
\* the step in which a pending request is answered, which stores the answered
\* record in both; the results panel is rendered only with loading false and
\* a stored record, never together with the loading panel
C11_FetchStoreRender ==
    /\ [](ResultsPanel =>
            /\ ~LoadingPanel
            /\ ~state.loading
            /\ \E i \in 1..Len(state.companies) :
                  state.currentAnalysis = Some(state.companies[i]))
    /\ [][/\ postCount' # postCount =>
                /\ state'.loading
                /\ pending' # pending
                /\ state'.currentAnalysis = state.currentAnalysis
                /\ state'.companies = state.companies
          /\ (\/ state'.currentAnalysis # state.currentAnalysis
              \/ state'.companies # state.companies) =>
                \E call \in pending :
                   /\ call \notin pending'
                   /\ succeeded' = succeeded + 1
                   /\ state'.currentAnalysis = Some(ResponseData(call))
                   /\ state'.companies =
                         Append(state.companies, ResponseData(call))
         ]_vars

C11_Witness ==
    /\ ResultsPanel
    /\ succeeded = 1
    /\ postCount = 1
    /\ pending = {}

\* the smaller of two numbers
Min(a, b) == IF a < b THEN a ELSE b

NotificationsMax == NotificationsKept + 1

\* C12: each analysis_complete event adds one notification at the head of
\* state.notifications, whose message names the event's symbol and whose data
\* is the event's payload; nothing else adds a notification
C12_OneNotificationPerEvent ==
    [][/\ received' # received =>
             LET data == received'[Len(received')]
                 old == state.notifications
                 new == state'.notifications
             IN  /\ received' = Append(received, data)
                 /\ Len(new) = Min(Len(old) + 1, NotificationsMax)
                 /\ new[1].data = data
                 /\ new[1].message = <<"Analysis complete for ", data.symbol>>
                 /\ \A i \in 2..Len(new) : new[i] = old[i - 1]
       /\ state'.notifications # state.notifications =>
             Len(received') = Len(received) + 1
      ]_vars

C12_Witness ==
    /\ Len(state.notifications) = 2
    /\ Len(received) = 2
    /\ state.notifications[1].data = received[2]
    /\ state.notifications[1].data # state.notifications[2].data
    /\ succeeded = 1

\* the step is the receipt of a socket event
EventStep == events' = events + 1

\* C13: an analysis_complete event changes only state.notifications and a
\* market_update event only state.marketData; neither changes loading, error,
\* currentAnalysis, companies or portfolio, nor starts, completes or cancels
\* an analysis request
C13_SocketFrame ==
    [][EventStep =>
          /\ \/ /\ received' # received
                /\ state' = [state EXCEPT
                               !.notifications = state'.notifications]
             \/ /\ received' = received
                /\ state' = [state EXCEPT !.marketData = state'.marketData]
          /\ state'.loading = state.loading
          /\ state'.error = state.error
          /\ state'.currentAnalysis = state.currentAnalysis
          /\ state'.companies = state.companies
          /\ state'.portfolio = state.portfolio
          /\ pending' = pending
          /\ callCount' = callCount
          /\ postCount' = postCount
          /\ succeeded' = succeeded
          /\ failed' = failed
      ]_vars

C13_Witness ==
    /\ events = 2
    /\ Len(received) = 1
    /\ state.marketData # Null
    /\ pending # {}
    /\ state.loading

\* C14: every request carries the caller's symbol and the caller's daysBack,
\* or 30 when the caller passes none; the Analysis page sends the symbol in
\* upper case with days_back one of 7, 30, 90, 180, the Portfolio page sends
\* days_back 30
C14_RequestBody ==
    [][postCount' # postCount =>
          /\ postCount' = postCount + 1
          /\ lastCall' # Null
          /\ lastPost' # Null
          /\ LET call == lastCall'[1]
                 body == lastPost'[1]
             IN  /\ body.symbol = call.symbol
                 /\ body.symbol \notin {"aapl", "msft"}
                 /\ body.days_back \in Int
                 /\ body.days_back =
                       IF call.daysBack = Null THEN 30 ELSE call.daysBack[1]
                 /\ call.origin = "Analysis" =>
                       /\ call.daysBack # Null
                       /\ body.days_back \in {7, 30, 90, 180}
                 /\ call.origin = "Portfolio" =>
                       /\ call.daysBack = Null
                       /\ body.days_back = 30
      ]_vars

C14_Witness ==
    /\ postCount = 2
    /\ lastCall # Null
    /\ lastCall[1].origin = "Analysis"
    /\ lastCall[1].daysBack = Some(180)
    /\ lastPost = Some([symbol |-> "MSFT", days_back |-> 180,
                        include_competitors |-> FALSE])

\* C15: state.loading is true whenever an analyzeCompany request is in
\* flight, also when two analyses overlap
C15_LoadingWhilePending == pending # {} => state.loading

\* C16: after an analyzeCompany call succeeds state.error is null, so the
\* error of an old failure is not shown with the results of a newer analysis
C16_ErrorClearedBySuccess ==
    (lastSettled # Null /\ lastSettled[1].outcome = "returned") =>
        state.error = Null

\* the last n items of a sequence, latest first
RECURSIVE LatestFirst(_, _)
LatestFirst(items, n) ==
    IF n = 0 \/ items = << >> THEN << >>
    ELSE <<items[Len(items)]>>
            \o LatestFirst(SubSeq(items, 1, Len(items) - 1), n - 1)

\* C17: state.notifications holds at most 10 entries, they are the most
\* recently received notifications, newest first; the 11th notification drops
\* the oldest and keeps the order of the others
C17_NotificationsBounded ==
    /\ Len(state.notifications) <= 10
    /\ Len(state.notifications) = Min(Len(received), 10)
    /\ [i \in 1..Len(state.notifications) |-> state.notifications[i].data]
          = LatestFirst(received, 10)

C17_Witness ==
    /\ Len(received) = 11
    /\ Len(state.notifications) = 10
    /\ state.notifications[10].data = received[2]
    /\ received[1] # received[2]

\* C18: currentAnalysis is null exactly when companies is empty, and
\* otherwise it is the last record of companies, also after overlapping
\* analyses and after failed ones
C18_CurrentIsLastCompany ==
    /\ state.currentAnalysis = Null <=> state.companies = << >>
    /\ state.companies # << >> =>
          state.currentAnalysis = Some(state.companies[Len(state.companies)])

C18_Witness ==
    /\ Len(state.companies) = 1
    /\ failed = 1
    /\ lastSettled # Null
    /\ lastSettled[1].outcome = "threw"
    /\ state.currentAnalysis = Some(state.companies[1])

\* C19: state.portfolio never holds two entries with the same symbol
C19_PortfolioSymbolsUnique ==
    \A i, j \in 1..Len(state.portfolio) :
        state.portfolio[i].symbol = state.portfolio[j].symbol => i = j

\* the items of a sequence whose symbol is not the given one, in their order
OtherSymbols(items, symbol) == SelectSeq(items, LAMBDA x : x.symbol # symbol)

\* C20: removeFromPortfolio(s) leaves no entry with symbol s, keeps the other
\* entries in their order and changes nothing else in the state; removing a
\* symbol that is not in the portfolio leaves the portfolio unchanged
C20_RemoveFrame ==
    [][lastRemoved' # Null =>
          LET symbol == lastRemoved'[1]
          IN  /\ \A i \in 1..Len(state'.portfolio) :
                    state'.portfolio[i].symbol # symbol
              /\ state'.portfolio = OtherSymbols(state.portfolio, symbol)
              /\ state' = [state EXCEPT !.portfolio = state'.portfolio]
              /\ (\A i \in 1..Len(state.portfolio) :
                     state.portfolio[i].symbol # symbol)
                    => state' = state
      ]_vars

C20_Witness ==
    /\ lastRemoved = Some("AAPL")
    /\ Len(state.companies) = 3
    /\ state.companies[1].symbol = "AAPL"
    /\ state.companies[3].symbol = "AAPL"
    /\ Len(state.portfolio) = 1
    /\ state.portfolio[1].symbol = "MSFT"

----------------------------------------------------------------------------
(* Properties of the Portfolio page's add, checked under Spec *)

\* the records of items, as a set
Records(items) == {items[i] : i \in 1..Len(items)}

\* a step in which a call made by the Portfolio page fails
PortfolioCallFails ==
    /\ failed' = failed + 1
    /\ lastSettled'[1].origin = "Portfolio"

\* a step in which the mounted Portfolio page's call fails
MountedPortfolioCallFails ==
    /\ PortfolioCallFails
    /\ page = "Portfolio"
    /\ \E call \in pending \ pending' : call.mount = portfolioMount

\* C21: every entry of state.portfolio is a record of state.companies; a
\* failing call of the Portfolio page leaves the portfolio as it was and, the
\* page still being mounted, its loading flag false; no step but a call that
\* succeeds for the Portfolio page lengthens the portfolio, so a submit with a
\* blank symbol changes neither the portfolio nor the flag
C21_PortfolioFromAnalyses ==
    /\ [](Records(state.portfolio) \subseteq Records(state.companies))
    /\ [][PortfolioCallFails => state'.portfolio = state.portfolio]_vars
    /\ [][MountedPortfolioCallFails => ~portfolioLoading']_vars
    /\ [][Len(state'.portfolio) > Len(state.portfolio) =>
             /\ succeeded' = succeeded + 1
             /\ lastSettled'[1].origin = "Portfolio"
             /\ state'.portfolio =
                    Append(state.portfolio,
                           state'.companies[Len(state'.companies)])]_vars
    /\ [][(portfolioLoading' /\ ~portfolioLoading) =>
             callCount' = callCount + 1]_vars

\* a call of the Portfolio page has failed with a company already in the
\* portfolio, and the page is ready for the next symbol
C21_Witness ==
    /\ Len(state.portfolio) = 1
    /\ failed = 1
    /\ lastSettled # Null
    /\ lastSettled[1].origin = "Portfolio"
    /\ lastSettled[1].outcome = "threw"
    /\ page = "Portfolio"
    /\ ~portfolioLoading

----------------------------------------------------------------------------
(* Properties of the Dashboard's Recent Analyses panel, checked under
   SpecRecent *)

\* the last n records of items, in their order
LastRecords(items, n) == SubSeq(items, Len(items) - n + 1, Len(items))

\* C22: on the Dashboard, the records handed to RecentAnalyses are the last
\* (up to five) records of state.companies, so the newest record is one of
\* them
C22_RecentShowsNewest ==
    page = "Dashboard" =>
        /\ RecentAnalysesCompanies(state) =
               LastRecords(state.companies,
                           Min(RecentShown, Len(state.companies)))
        /\ state.companies # << >> =>
               state.companies[Len(state.companies)]
                   \in Records(RecentAnalysesCompanies(state))

----------------------------------------------------------------------------
(* Properties of the loading flag, checked under SpecSettle *)

\* the call numbered id is waiting for its request
Pending(id) == \E call \in pending : call.id = id

\* a step in which a request settles
Settles == succeeded' + failed' > succeeded + failed

\* C23: the step in which the request of a call settles, with a response or
\* with a failure, ends with loading false; and, every request settling in the
\* end, every call is followed by a state in which it is no longer waiting
\* and loading is false
C23_SettledEndsLoading ==
    /\ [][Settles => ~state'.loading]_vars
    /\ \A id \in 1..MaxCalls :
          Pending(id) ~> (~Pending(id) /\ ~state.loading)

\* a call has failed and another has succeeded, and loading is false
C23_Witness ==
    /\ succeeded = 1
    /\ failed = 1
    /\ pending = {}
    /\ ~state.loading

----------------------------------------------------------------------------
(* Properties of the Dashboard and Market pages' load, checked under
   SpecPages *)

\* both fetches of the mounted page have settled
LoadSettled == page \in DataPages /\ \A f \in Fetches : Settled(fetches, f)

\* the list the page holds for fetch f
ListOf(f) == IF f = "trending" THEN trendingCompanies ELSE sectorData

\* a step of the load
LoadStep == fetches' # fetches /\ page' = page

\* C24: once both fetches of the Dashboard or Market page have settled the
\* page's loading flag is false; a fetch that failed has returned an empty
\* list and has thrown nothing, and the page then holds an empty list for it;
\* no step of the load changes the shared state
C24_LoadEnds ==
    /\ [](LoadSettled => ~pageLoading)
    /\ [](\A f \in Fetches :
             fetches[f].status = "failed" =>
                 fetches[f].result = [threw |-> FALSE, value |-> Some(<< >>)])
    /\ [](\A f \in Fetches : ~fetches[f].result.threw)
    /\ [](LoadSettled =>
             \A f \in Fetches :
                 /\ fetches[f].status = "failed" => ListOf(f) = << >>
                 /\ fetches[f].status = "ok" =>
                        ListOf(f) = OrEmpty(fetches[f].result.value))
    /\ [][LoadStep => state' = state]_vars

\* the Market page's load has ended, one fetch having failed and the other
\* answered, while an analysis is waiting for its answer
C24_Witness ==
    /\ page = "Market"
    /\ fetches["trending"].status = "failed"
    /\ fetches["sectors"].status = "ok"
    /\ sectorData = <<"AAPL", "MSFT">>
    /\ trendingCompanies = << >>
    /\ ~pageLoading
    /\ pending # {}
    /\ state.loading

====
